---- MODULE Spec2Model ----
(***************************************************************************)
(* Model of src/main.py (dual AirPlay reflector with browser view):         *)
(*   - mjpeg_stream: one generator per connected client (stream session),   *)
(*   - keep_uxplay_windows_positioned: the background window reconciler,    *)
(*   - main: the Ctrl+C path that sets the stop event and exits,            *)
(*   - the OS side: the two UxPlay windows and the wall clock.              *)
(*                                                                         *)
(* Time is counted in units of 1/120 s, so that 0.8 s = 96 units.           *)
(* time.sleep is a step of the sleeping thread; how far the clock moves     *)
(* while a thread sleeps or is descheduled is left open (Tick).             *)
(***************************************************************************)
EXTENDS Integers, FiniteSets, Sequences, TLC

\* ------------------------------------------------------------------ bounds

\* Largest clock value the model explores.
MaxTime == 192

\* How many windows a UxPlay receiver opens over the run (each gets a new id).
MaxWin == 1

\* Saturation point of the count of move calls begun after the stop event.
MaxLateMoves == 2

\* Saturation point of the count of ticks a session begins after the stop event.
MaxLateTicks == 2

\* Longest OS window list handed to the Window Locator.
MaxWindows == 2

\* --------------------------------------------------------------- constants

\* 0.8 s, the literal of line 445, in clock units.
LookupInterval == 96

\* The ways the clock may advance between two steps: just short of the lookup
\* interval, and exactly the lookup interval.
TickSteps == {LookupInterval - 1, LookupInterval}

\* time.time() at the start of the run: far more than 0.8 s after the epoch,
\* so the first test of line 445 against last_window_lookup = 0.0 passes.
StartTime == LookupInterval

\* frame_delay = 1.0 / TARGET_FPS, in the same unit.
FrameDelay == 5

Sources == {"iphone", "ipad"}

\* The clients (HTTP connections) that may open a stream.
Sessions == {"c1", "c2"}

\* Python's None for a window id; a handle is <<source, k>>.
None == <<>>

Handles == {<<src, k>> : src \in Sources, k \in 1..MaxWin}

VARIABLES
  platform,            \* sys.platform
  auto_position,       \* AUTO_POSITION_WINDOWS
  now,                 \* time.time()
  winId,               \* per source: handle of its UxPlay window, or None
  winGen,              \* per source: how many windows it has opened so far
  mpc,                 \* main: "serving" | "terminating" | "exited"
  stop_event,          \* window_stop_event
  rpc,                 \* reconciler position
  positioned,          \* iphone_done / ipad_done
  lateMoves,           \* history: set_window_bounds calls begun after stop_event
  moved,               \* history: a set_window_bounds call for the source returned true
  pc,                  \* per session: position in mjpeg_stream
  source,              \* per session: the route's source
  tnow,                \* per session: local `now`
  window_id,           \* per session: local window_id
  last_window_lookup,  \* per session: local last_window_lookup
  frame,               \* per session: local frame: "none" | "window" | "region"
  sct,                 \* per session: the mss handle of the with block is open
  lookupAt,            \* history: clock reading of the session's last locate call
  stale,               \* history: handles whose capture failed, not re-resolved
  sentWindow,          \* history: the session emitted a window-captured chunk
  encFailed,           \* history: an encode of the session failed
  grabFailed,          \* history: the session's fallback grab raised
  lateTicks,           \* history: loop iterations begun after stop_event
  fresh,               \* history: the frame in the slot was acquired in this tick
  tickStart,           \* history: the clock when the iteration under way began
  asleep,              \* the duration asked of the time.sleep under way, else 0
  MACOS_CG,            \* _MACOS_CG: "None" | "False" | the thread whose CDLL call made it
  MACOS_CF,            \* _MACOS_CF: "None" | the thread whose CDLL call made it
  MACOS_CF_KEYS,       \* _MACOS_CF_KEYS is not None
  cgConfigured,        \* CoreGraphics objects whose signatures are configured
  cfConfigured,        \* CoreFoundation objects whose signatures are configured
  ipc,                 \* per thread: position in _macos_init_window_capture
  windowList,          \* the entries of CGWindowListCopyWindowInfo, in order
  lastCall             \* the last macos_find_window_id call and what it returned

envVars == <<platform, auto_position, now, winId, winGen>>
mainVars == <<mpc, stop_event>>
recVars == <<rpc, positioned, lateMoves, moved>>
sessLocals == <<pc, source, tnow, window_id, last_window_lookup, frame, sct>>
tickHist ==
  <<lookupAt, stale, sentWindow, encFailed, grabFailed, lateTicks, fresh>>
paceHist == <<tickStart, asleep>>
sessHist == <<tickHist, paceHist>>
sessVars == <<sessLocals, sessHist>>
libVars ==
  <<MACOS_CG, MACOS_CF, MACOS_CF_KEYS, cgConfigured, cfConfigured, ipc>>
locVars == <<windowList, lastCall>>
vars == <<envVars, mainVars, recVars, sessVars, libVars, locVars>>

\* ------------------------------------------------------------ OS interface

\* macos_find_window_id: the handle of the window titled `title`, None when
\* there is none or the window-list query fails (qok = FALSE).
FindWindowAnyTitle(title, wins, qok) ==
  IF qok /\ \E src \in Sources : wins[src] # None
  THEN IF wins[title] # None THEN wins[title]
       ELSE wins[CHOOSE src \in Sources : wins[src] # None]
  ELSE None

macos_find_window_id(title, wins, qok) ==
  IF qok /\ wins[title] # None THEN wins[title] ELSE None

\* macos_capture_window_bgr: a frame when the window behind the handle exists
\* and its image can be read (iok), None otherwise.
macos_capture_window_bgr(h, wins, iok) ==
  IF iok /\ \E src \in Sources : wins[src] = h /\ h # None
  THEN "window" ELSE "none"

\* set_window_bounds: true when a window with the title was moved.
SetWindowBoundsBlind(title, wins, sok) == sok

set_window_bounds(title, wins, sok) ==
  sok /\ wins[title] # None

\* ------------------------------------------------------------------- Init

Init ==
  /\ platform \in {"darwin", "linux"}
  /\ auto_position \in BOOLEAN
  /\ now = StartTime
  /\ winId = [src \in Sources |-> None]
  /\ winGen = [src \in Sources |-> 0]
  /\ mpc = "serving"
  /\ stop_event = FALSE
  /\ rpc = "start"
  /\ positioned = [src \in Sources |-> FALSE]
  /\ lateMoves = [src \in Sources |-> 0]
  /\ moved = [src \in Sources |-> FALSE]
  /\ pc = [s \in Sessions |-> "idle"]
  /\ source = [s \in Sessions |-> "iphone"]
  /\ tnow = [s \in Sessions |-> 0]
  /\ window_id = [s \in Sessions |-> None]
  /\ last_window_lookup = [s \in Sessions |-> 0]
  /\ frame = [s \in Sessions |-> "none"]
  /\ sct = [s \in Sessions |-> FALSE]
  /\ lookupAt = [s \in Sessions |-> 0]
  /\ stale = [s \in Sessions |-> {}]
  /\ sentWindow = [s \in Sessions |-> FALSE]
  /\ encFailed = [s \in Sessions |-> FALSE]
  /\ grabFailed = [s \in Sessions |-> FALSE]
  /\ lateTicks = [s \in Sessions |-> 0]
  /\ fresh = [s \in Sessions |-> FALSE]
  /\ tickStart = [s \in Sessions |-> 0]
  /\ asleep = [s \in Sessions |-> 0]
  /\ MACOS_CG = "None"
  /\ MACOS_CF = "None"
  /\ MACOS_CF_KEYS = FALSE
  /\ cgConfigured = {}
  /\ cfConfigured = {}
  /\ ipc = [s \in Sessions |-> "idle"]
  /\ windowList = <<>>
  /\ lastCall = [called |-> FALSE, title |-> <<>>, wins |-> <<>>,
                 qok |-> TRUE, result |-> None]

\* ------------------------------------------- the Window Locator in detail

\* str.lower, letter by letter.
Lower(c) == IF c = "P" THEN "p" ELSE IF c = "D" THEN "d" ELSE c

LowerStr(str) == [i \in 1..Len(str) |-> Lower(str[i])]

\* Python's `sub in str`.
Contains(sub, str) ==
  \E i \in 0..(Len(str) - Len(sub)) : SubSeq(str, i + 1, i + Len(sub)) = sub

\* Titles of the windows on screen; an unreadable title reads as "".
Names == {<<>>, <<"P">>, <<"d", "p">>, <<"P", "D">>}

\* The title substrings asked for.
Substrings == {<<>>, <<"p">>, <<"P", "d">>, <<"D">>}

\* An entry of the list: its title, and whether the entry is null
\* ("no_info"), lacks a readable window number ("no_number") or is "ok".
Entries == [name : Names, state : {"ok", "no_number", "no_info"}]

\* The window number of the i-th entry.
NumberOf(i) == <<"wid", i>>

\* Line 210: the test that keeps an entry.
NameMatchesAsWritten(needle, name) == needle = <<>> \/ Contains(needle, name)

NameMatches(needle, name) ==
  needle = <<>> \/ Contains(needle, LowerStr(name))

\* Lines 201-224: the loop over the entries, from entry i on.
RECURSIVE ScanWindows(_, _, _)
ScanWindows(wins, i, needle) ==
  IF i > Len(wins) THEN None
  ELSE IF wins[i].state = "no_info" THEN ScanWindows(wins, i + 1, needle)
  ELSE IF ~NameMatches(needle, wins[i].name)
       THEN ScanWindows(wins, i + 1, needle)
  ELSE IF wins[i].state = "no_number" THEN ScanWindows(wins, i + 1, needle)
  ELSE NumberOf(i)

\* Lines 189-227 over a whole window list; qok is false when the libraries
\* are unavailable or CGWindowListCopyWindowInfo returns null.
FindWindowId(title_substring, wins, qok) ==
  IF ~qok THEN None ELSE ScanWindows(wins, 1, LowerStr(title_substring))

\* A window (or a null entry) joins the end of the OS list.
OpenWindow ==
  /\ Len(windowList) < MaxWindows
  /\ \E e \in Entries : windowList' = Append(windowList, e)
  /\ UNCHANGED lastCall
  /\ UNCHANGED <<envVars, mainVars, recVars, sessVars, libVars>>

\* A call of macos_find_window_id on the list as it stands.
CallLocate ==
  /\ \E title \in Substrings, qok \in BOOLEAN :
       lastCall' = [called |-> TRUE, title |-> title, wins |-> windowList,
                    qok |-> qok, result |-> FindWindowId(title, windowList, qok)]
  /\ UNCHANGED windowList
  /\ UNCHANGED <<envVars, mainVars, recVars, sessVars, libVars>>

\* ------------------------------------------------------------ environment

Tick ==
  /\ mpc # "exited"
  /\ \E d \in TickSteps :
       /\ now + d <= MaxTime
       /\ now' = now + d
  /\ UNCHANGED <<platform, auto_position, winId, winGen>>
  /\ UNCHANGED <<mainVars, recVars, sessVars, libVars, locVars>>

\* A device connects and the receiver opens its window.
WindowAppears(src) ==
  /\ mpc # "exited"
  /\ winId[src] = None
  /\ winGen[src] < MaxWin
  /\ winGen' = [winGen EXCEPT ![src] = @ + 1]
  /\ winId' = [winId EXCEPT ![src] = <<src, winGen[src] + 1>>]
  /\ UNCHANGED <<platform, auto_position, now>>
  /\ UNCHANGED <<mainVars, recVars, sessVars, libVars, locVars>>

WindowCloses(src) ==
  /\ mpc # "exited"
  /\ winId[src] # None
  /\ winId' = [winId EXCEPT ![src] = None]
  /\ UNCHANGED <<platform, auto_position, now, winGen>>
  /\ UNCHANGED <<mainVars, recVars, sessVars, libVars, locVars>>

\* --------------------------------------------------- stream session steps

\* What the steps of session s leave alone.
OthersUnchanged == UNCHANGED <<envVars, mainVars, recVars, libVars, locVars>>

\* Line 443: the window path is taken on macOS (both routes pass a title).
UsesWindowPath == platform = "darwin"

\* Line 445: look the window up when none is cached and the interval elapsed.
ShouldLookup(wid, t, last) == wid = None /\ (t - last) >= LookupInterval

\* Line 446: the handle found is stored in the session's own window_id.
StoreHandleShared(wids, s, h) == [t \in DOMAIN wids |-> h]

StoreHandle(wids, s, h) == [wids EXCEPT ![s] = h]

\* Line 447: the lookup time is recorded whether or not a window was found.
LookupStampOnHit(found, t, last) == IF found # None THEN t ELSE last

LookupStamp(found, t, last) == t

\* Lines 451-452: a failed capture drops the cached handle.
AfterCaptureKeep(wid, f) == wid

AfterCapture(wid, f) == IF f = "none" THEN None ELSE wid

\* Line 454: the fallback region is grabbed when there is no frame yet.
NeedsFallbackInverted(f) == f # "none"

NeedsFallback(f) == f = "none"

\* Lines 471-475: a failed encode goes back to the loop top, a good one yields.
AfterEncodeReturn(ok) == IF ok THEN "yield" ELSE "closed"

AfterEncode(ok) == IF ok THEN "yield" ELSE "top"

\* A client requests /stream/iphone or /stream/ipad: lines 552-565, then the
\* generator's prologue, lines 436-439.
\* An exception leaving mjpeg_stream unwinds the generator of the request
\* that raised it; each request runs its own generator on its own thread.
RaiseAll(pcs, s) == [x \in DOMAIN pcs |-> "raised"]

Raise(pcs, s) == [pcs EXCEPT ![s] = "raised"]

\* Line 439: leaving the with block, by GeneratorExit or by an exception,
\* closes the session's mss handle.
WithExitLeak(o, s) == o

WithExit(o, s) == [o EXCEPT ![s] = FALSE]

Start(s, src) ==
  /\ mpc # "exited"
  /\ pc[s] = "idle"
  /\ pc' = [pc EXCEPT ![s] = "top"]
  /\ source' = [source EXCEPT ![s] = src]
  /\ UNCHANGED <<tnow, window_id, last_window_lookup, frame, sessHist>>
  /\ sct' = [sct EXCEPT ![s] = TRUE]
  /\ OthersUnchanged

\* Line 441: every iteration starts with an empty frame slot.
FreshFrameKeep(f) == f

FreshFrame(f) == "none"

\* Lines 440-445: reset the frame, read the clock, decide on a lookup.
Top(s) ==
  /\ pc[s] = "top"
  /\ frame' = [frame EXCEPT ![s] = FreshFrame(@)]
  /\ fresh' = [fresh EXCEPT ![s] = FALSE]
  /\ tickStart' = [tickStart EXCEPT ![s] = now]
  /\ UNCHANGED asleep
  /\ IF UsesWindowPath
     THEN /\ tnow' = [tnow EXCEPT ![s] = now]
          /\ pc' = [pc EXCEPT ![s] =
                      IF ShouldLookup(window_id[s], now, last_window_lookup[s])
                      THEN "locate" ELSE "capture"]
     ELSE /\ pc' = [pc EXCEPT ![s] = "grab"]
          /\ UNCHANGED tnow
  /\ lateTicks' = [lateTicks EXCEPT ![s] =
                     IF stop_event /\ @ < MaxLateTicks THEN @ + 1 ELSE @]
  /\ UNCHANGED <<source, window_id, last_window_lookup>>
  /\ UNCHANGED <<lookupAt, stale, sentWindow, encFailed, grabFailed>>
  /\ UNCHANGED sct
  /\ OthersUnchanged

\* Lines 446-447: the Window Locator call.
Locate(s) ==
  /\ pc[s] = "locate"
  /\ \E qok \in BOOLEAN :
       LET found == macos_find_window_id(source[s], winId, qok) IN
         /\ window_id' = StoreHandle(window_id, s, found)
         /\ last_window_lookup' =
              [last_window_lookup EXCEPT ![s] = LookupStamp(found, tnow[s], @)]
         /\ stale' = [stale EXCEPT ![s] = @ \ {found}]
  /\ lookupAt' = [lookupAt EXCEPT ![s] = tnow[s]]
  /\ pc' = [pc EXCEPT ![s] = "capture"]
  /\ UNCHANGED <<source, tnow, frame>>
  /\ UNCHANGED <<sentWindow, encFailed, grabFailed, lateTicks, fresh>>
  /\ UNCHANGED paceHist
  /\ UNCHANGED sct
  /\ OthersUnchanged

\* Lines 449-452: capture through the cached handle.
Capture(s) ==
  /\ pc[s] = "capture"
  /\ IF window_id[s] # None
     THEN \E iok \in BOOLEAN :
            LET f == macos_capture_window_bgr(window_id[s], winId, iok) IN
              /\ frame' = [frame EXCEPT ![s] = f]
              /\ window_id' = [window_id EXCEPT ![s] = AfterCapture(@, f)]
              /\ stale' = [stale EXCEPT ![s] =
                             IF f = "none" THEN @ \cup {window_id[s]} ELSE @]
              /\ fresh' = [fresh EXCEPT ![s] = f # "none"]
     ELSE UNCHANGED <<frame, window_id, stale, fresh>>
  /\ pc' = [pc EXCEPT ![s] = "grab"]
  /\ UNCHANGED <<source, tnow, last_window_lookup>>
  /\ UNCHANGED <<lookupAt, sentWindow, encFailed, grabFailed, lateTicks>>
  /\ UNCHANGED paceHist
  /\ UNCHANGED sct
  /\ OthersUnchanged

\* The fallback taken only in the else branch of line 443.
GrabElseBranch(s) ==
  /\ pc[s] = "grab"
  /\ IF ~UsesWindowPath
     THEN \E gok \in BOOLEAN :
            IF gok
            THEN /\ frame' = [frame EXCEPT ![s] = "region"]
                 /\ fresh' = [fresh EXCEPT ![s] = TRUE]
                 /\ pc' = [pc EXCEPT ![s] = "encode"]
                 /\ UNCHANGED grabFailed
            ELSE /\ pc' = Raise(pc, s)
                 /\ grabFailed' = [grabFailed EXCEPT ![s] = TRUE]
                 /\ UNCHANGED <<frame, fresh>>
     ELSE /\ pc' = [pc EXCEPT ![s] = "encode"]
          /\ UNCHANGED <<frame, grabFailed, fresh>>
  /\ UNCHANGED <<source, tnow, window_id, last_window_lookup>>
  /\ UNCHANGED <<lookupAt, stale, sentWindow, encFailed, lateTicks>>
  /\ UNCHANGED paceHist
  /\ sct' = IF pc'[s] = "raised" THEN WithExit(sct, s) ELSE sct
  /\ OthersUnchanged

\* Lines 454-464: the fallback region grab; sct.grab raising ends the session.
Grab(s) ==
  /\ pc[s] = "grab"
  /\ IF NeedsFallback(frame[s])
     THEN \E gok \in BOOLEAN :
            IF gok
            THEN /\ frame' = [frame EXCEPT ![s] = "region"]
                 /\ fresh' = [fresh EXCEPT ![s] = TRUE]
                 /\ pc' = [pc EXCEPT ![s] = "encode"]
                 /\ UNCHANGED grabFailed
            ELSE /\ pc' = Raise(pc, s)
                 /\ grabFailed' = [grabFailed EXCEPT ![s] = TRUE]
                 /\ UNCHANGED <<frame, fresh>>
     ELSE /\ pc' = [pc EXCEPT ![s] = "encode"]
          /\ UNCHANGED <<frame, grabFailed, fresh>>
  /\ UNCHANGED <<source, tnow, window_id, last_window_lookup>>
  /\ UNCHANGED <<lookupAt, stale, sentWindow, encFailed, lateTicks>>
  /\ UNCHANGED paceHist
  /\ sct' = IF pc'[s] = "raised" THEN WithExit(sct, s) ELSE sct
  /\ OthersUnchanged

\* Lines 466-474: cv2.imencode; it raises when handed no frame at all.
Encode(s) ==
  /\ pc[s] = "encode"
  /\ IF frame[s] = "none"
     THEN /\ pc' = Raise(pc, s)
          /\ UNCHANGED <<sentWindow, encFailed>>
     ELSE \E ok \in BOOLEAN :
            /\ pc' = [pc EXCEPT ![s] = AfterEncode(ok)]
            /\ encFailed' = [encFailed EXCEPT ![s] = @ \/ ~ok]
            /\ sentWindow' =
                 [sentWindow EXCEPT ![s] = @ \/ (ok /\ frame[s] = "window")]
  /\ UNCHANGED <<source, tnow, window_id, last_window_lookup, frame>>
  /\ UNCHANGED <<lookupAt, stale, grabFailed, lateTicks, fresh>>
  /\ UNCHANGED paceHist
  /\ sct' = IF pc'[s] = "raised" THEN WithExit(sct, s) ELSE sct
  /\ OthersUnchanged

\* Line 479: the duration passed to time.sleep after a tick that took elapsed.
SleepDuration(elapsed) == FrameDelay

\* Lines 475-478: the chunk is handed to the server, which writes it to the
\* client and resumes the generator.
Resume(s) ==
  /\ pc[s] = "yield"
  /\ pc' = [pc EXCEPT ![s] = "sleep"]
  /\ asleep' = [asleep EXCEPT ![s] = SleepDuration(now - tickStart[s])]
  /\ UNCHANGED <<source, tnow, window_id, last_window_lookup, frame>>
  /\ UNCHANGED <<tickHist, tickStart>>
  /\ UNCHANGED sct
  /\ OthersUnchanged

\* The write to the client fails: the server closes the generator at its
\* yield (GeneratorExit), and the with block of line 439 releases mss.
Disconnect(s) ==
  /\ pc[s] = "yield"
  /\ pc' = [pc EXCEPT ![s] = "closed"]
  /\ UNCHANGED <<source, tnow, window_id, last_window_lookup, frame, sessHist>>
  /\ sct' = WithExit(sct, s)
  /\ OthersUnchanged

\* Line 479: the pacing sleep, then back to line 440.
Sleep(s) ==
  /\ pc[s] = "sleep"
  /\ pc' = [pc EXCEPT ![s] = "top"]
  /\ asleep' = [asleep EXCEPT ![s] = 0]
  /\ UNCHANGED <<source, tnow, window_id, last_window_lookup, frame>>
  /\ UNCHANGED <<tickHist, tickStart>>
  /\ UNCHANGED sct
  /\ OthersUnchanged

\* ------------------------------------------------------- window reconciler

TestPc(src) == IF src = "iphone" THEN "test_iphone" ELSE "test_ipad"

CallPc(src) == IF src = "iphone" THEN "call_iphone" ELSE "call_ipad"

\* After the iPhone block comes the iPad block, then the test of line 348.
AfterPc(src) == IF src = "iphone" THEN "test_ipad" ELSE "both"

\* Line 342: the loop goes on while the stop event is not set.
ContinueLoopForever(stop) == TRUE

ContinueLoop(stop) == ~stop

\* Lines 343 and 345: a source is moved only while it is not done.
ShouldMoveAlways(done) == TRUE

ShouldMove(done) == ~done

SessionsUnchanged == UNCHANGED <<envVars, mainVars, sessVars, libVars, locVars>>

\* Lines 335-338: the loop is entered on macOS with auto-positioning on.
LoopEnabledIgnoringFlag(plat, auto) == plat = "darwin"

LoopEnabled(plat, auto) == plat = "darwin" /\ auto

\* Lines 335-341: the guards before the loop.
RStart ==
  /\ rpc = "start"
  /\ rpc' = IF LoopEnabled(platform, auto_position) THEN "while" ELSE "done"
  /\ UNCHANGED <<positioned, lateMoves, moved>>
  /\ SessionsUnchanged

\* Line 342.
RWhile ==
  /\ rpc = "while"
  /\ rpc' = IF ContinueLoop(stop_event) THEN "test_iphone" ELSE "done"
  /\ UNCHANGED <<positioned, lateMoves, moved>>
  /\ SessionsUnchanged

\* Line 343 for the iPhone, line 345 for the iPad.
RTest(src) ==
  /\ rpc = TestPc(src)
  /\ IF ShouldMove(positioned[src])
     THEN /\ rpc' = CallPc(src)
          /\ lateMoves' = [lateMoves EXCEPT ![src] =
                             IF stop_event /\ @ < MaxLateMoves THEN @ + 1 ELSE @]
     ELSE /\ rpc' = AfterPc(src)
          /\ UNCHANGED lateMoves
  /\ UNCHANGED <<positioned, moved>>
  /\ SessionsUnchanged

\* Line 344 for the iPhone, line 346 for the iPad: the call returns.
RCall(src) ==
  /\ rpc = CallPc(src)
  /\ \E sok \in BOOLEAN :
       LET r == set_window_bounds(src, winId, sok) IN
         /\ positioned' = [positioned EXCEPT ![src] = r]
         /\ moved' = [moved EXCEPT ![src] = @ \/ r]
  /\ rpc' = AfterPc(src)
  /\ UNCHANGED lateMoves
  /\ SessionsUnchanged

\* Lines 348-349.
RBoth ==
  /\ rpc = "both"
  /\ rpc' = IF positioned["iphone"] /\ positioned["ipad"] THEN "done" ELSE "sleep"
  /\ UNCHANGED <<positioned, lateMoves, moved>>
  /\ SessionsUnchanged

\* Line 351.
RSleep ==
  /\ rpc = "sleep"
  /\ rpc' = "while"
  /\ UNCHANGED <<positioned, lateMoves, moved>>
  /\ SessionsUnchanged

\* ------------------------------------------------------------------- main

\* Lines 594-600: Ctrl+C ends the wait loop and the finally block sets the
\* stop event.
Interrupt ==
  /\ mpc = "serving"
  /\ mpc' = "terminating"
  /\ stop_event' = TRUE
  /\ UNCHANGED <<envVars, recVars, sessVars, libVars, locVars>>

\* Lines 601-608, then main returns: the interpreter exits and every daemon
\* thread (the reconciler, the server's request threads) ends with it.
Exit ==
  /\ mpc = "terminating"
  /\ mpc' = "exited"
  /\ rpc' = IF rpc = "done" THEN "done" ELSE "killed"
  /\ pc' = [s \in Sessions |->
              IF pc[s] \in {"idle", "closed", "raised"} THEN pc[s] ELSE "killed"]
  /\ UNCHANGED <<stop_event, positioned, lateMoves, moved, envVars>>
  /\ UNCHANGED <<source, tnow, window_id, last_window_lookup, frame, sct>>
  /\ UNCHANGED <<sessHist, libVars, locVars>>

\* ---------------------------------------- _macos_init_window_capture steps

\* What the steps of the lazy initialisation leave alone.
ProgramUnchanged ==
  UNCHANGED <<envVars, mainVars, recVars, sessVars, locVars>>

\* Lines 190, 231, 176: a thread serving a session calls the initialiser.
InitCall(t) ==
  /\ UsesWindowPath
  /\ ipc[t] = "idle"
  /\ ipc' = [ipc EXCEPT ![t] = "check"]
  /\ UNCHANGED <<MACOS_CG, MACOS_CF, MACOS_CF_KEYS, cgConfigured, cfConfigured>>
  /\ ProgramUnchanged

\* Lines 84-90: the early returns and the platform test.
InitCheck(t) ==
  /\ ipc[t] = "check"
  /\ IF MACOS_CG = "False"
     THEN /\ ipc' = [ipc EXCEPT ![t] = "idle"]
          /\ UNCHANGED MACOS_CG
     ELSE IF MACOS_CG # "None" /\ MACOS_CF # "None" /\ MACOS_CF_KEYS
     THEN /\ ipc' = [ipc EXCEPT ![t] = "use"]
          /\ UNCHANGED MACOS_CG
     ELSE IF platform # "darwin"
     THEN /\ ipc' = [ipc EXCEPT ![t] = "idle"]
          /\ MACOS_CG' = "False"
     ELSE /\ ipc' = [ipc EXCEPT ![t] = "load_cg"]
          /\ UNCHANGED MACOS_CG
  /\ UNCHANGED <<MACOS_CF, MACOS_CF_KEYS, cgConfigured, cfConfigured>>
  /\ ProgramUnchanged

\* Line 93 (and 97-99): a new CoreGraphics object replaces the global.
LoadCG(t) ==
  /\ ipc[t] = "load_cg"
  /\ \E ok \in BOOLEAN :
       IF ok
       THEN /\ MACOS_CG' = t
            /\ cgConfigured' = cgConfigured \ {t}
            /\ ipc' = [ipc EXCEPT ![t] = "load_cf"]
       ELSE /\ MACOS_CG' = "False"
            /\ ipc' = [ipc EXCEPT ![t] = "idle"]
            /\ UNCHANGED cgConfigured
  /\ UNCHANGED <<MACOS_CF, MACOS_CF_KEYS, cfConfigured>>
  /\ ProgramUnchanged

\* Lines 94-96 (and 97-99): a new CoreFoundation object replaces the global.
LoadCF(t) ==
  /\ ipc[t] = "load_cf"
  /\ \E ok \in BOOLEAN :
       IF ok
       THEN /\ MACOS_CF' = t
            /\ cfConfigured' = cfConfigured \ {t}
            /\ ipc' = [ipc EXCEPT ![t] = "conf_cg"]
            /\ UNCHANGED MACOS_CG
       ELSE /\ MACOS_CG' = "False"
            /\ ipc' = [ipc EXCEPT ![t] = "idle"]
            /\ UNCHANGED <<MACOS_CF, cfConfigured>>
  /\ UNCHANGED <<MACOS_CF_KEYS, cgConfigured>>
  /\ ProgramUnchanged

\* Lines 102-126: the signatures are set on the object the global names now;
\* on False the attribute access raises.
ConfigureCG(t) ==
  /\ ipc[t] = "conf_cg"
  /\ IF MACOS_CG = "False"
     THEN /\ ipc' = [ipc EXCEPT ![t] = "raised"]
          /\ UNCHANGED cgConfigured
     ELSE /\ ipc' = [ipc EXCEPT ![t] = "conf_cf"]
          /\ cgConfigured' = cgConfigured \cup {MACOS_CG}
  /\ UNCHANGED <<MACOS_CG, MACOS_CF, MACOS_CF_KEYS, cfConfigured>>
  /\ ProgramUnchanged

\* Lines 129-159: the same for CoreFoundation.
ConfigureCF(t) ==
  /\ ipc[t] = "conf_cf"
  /\ ipc' = [ipc EXCEPT ![t] = "keys"]
  /\ cfConfigured' = cfConfigured \cup {MACOS_CF}
  /\ UNCHANGED <<MACOS_CG, MACOS_CF, MACOS_CF_KEYS, cgConfigured>>
  /\ ProgramUnchanged

\* Lines 161-170: the key table is stored and True is returned.
StoreKeys(t) ==
  /\ ipc[t] = "keys"
  /\ MACOS_CF_KEYS' = TRUE
  /\ ipc' = [ipc EXCEPT ![t] = "use"]
  /\ UNCHANGED <<MACOS_CG, MACOS_CF, cgConfigured, cfConfigured>>
  /\ ProgramUnchanged

\* Lines 194-227: the caller, told True, calls through the globals and
\* returns.
UseLibraries(t) ==
  /\ ipc[t] = "use"
  /\ ipc' = [ipc EXCEPT ![t] = "idle"]
  /\ UNCHANGED <<MACOS_CG, MACOS_CF, MACOS_CF_KEYS, cgConfigured, cfConfigured>>
  /\ ProgramUnchanged

\* ------------------------------------------------------------------- steps


SessionStep(s) ==
  \/ \E src \in Sources : Start(s, src)
  \/ Top(s)
  \/ Locate(s)
  \/ Capture(s)
  \/ Grab(s)
  \/ Encode(s)
  \/ Resume(s)
  \/ Disconnect(s)
  \/ Sleep(s)

EnvStep ==
  \/ Tick
  \/ \E src \in Sources : WindowAppears(src)
  \/ \E src \in Sources : WindowCloses(src)

ReconcilerStep ==
  \/ RStart
  \/ RWhile
  \/ \E src \in Sources : RTest(src)
  \/ \E src \in Sources : RCall(src)
  \/ RBoth
  \/ RSleep

MainStep == Interrupt \/ Exit

InitStep(t) ==
  \/ InitCall(t)
  \/ InitCheck(t)
  \/ LoadCG(t)
  \/ LoadCF(t)
  \/ ConfigureCG(t)
  \/ ConfigureCF(t)
  \/ StoreKeys(t)
  \/ UseLibraries(t)

\* The whole program with one viewer connected.
Next == EnvStep \/ MainStep \/ ReconcilerStep \/ SessionStep("c1")

Spec == Init /\ [][Next]_vars

\* One client and the OS: the stream session on its own.
NextStream == EnvStep \/ SessionStep("c1")

SpecStream == Init /\ [][NextStream]_vars

\* The reconciler and main, no viewer.
NextReconciler == EnvStep \/ MainStep \/ ReconcilerStep

SpecReconciler == Init /\ [][NextReconciler]_vars

\* Shutdown with one viewer connected: main, the session and the OS.
NextShutdown == EnvStep \/ MainStep \/ SessionStep("c1")

SpecShutdown == Init /\ [][NextShutdown]_vars

\* The reconciler and one viewer while the program serves (no Ctrl+C).
NextMirror == EnvStep \/ ReconcilerStep \/ SessionStep("c1")

SpecMirror == Init /\ [][NextMirror]_vars

\* The source both viewers of the two-viewer specification ask for.
PairSource == "iphone"

PairStep(s) ==
  \/ Start(s, PairSource)
  \/ Top(s)
  \/ Locate(s)
  \/ Capture(s)
  \/ Grab(s)
  \/ Encode(s)
  \/ Resume(s)
  \/ Disconnect(s)
  \/ Sleep(s)

\* Two viewers of the same source at once, and that source's window.
NextPair ==
  \/ Tick
  \/ WindowAppears(PairSource)
  \/ WindowCloses(PairSource)
  \/ \E s \in Sessions : PairStep(s)

SpecPair == Init /\ [][NextPair]_vars

\* Two viewers of one source and the reconciler, at one instant of the clock.
NextCrowd ==
  \/ WindowAppears(PairSource)
  \/ ReconcilerStep
  \/ \E s \in Sessions : PairStep(s)

SpecCrowd == Init /\ [][NextCrowd]_vars

\* The threads of two sessions inside the lazy initialisation of the capture
\* libraries.
NextLazyInit == \E t \in Sessions : InitStep(t)

SpecLazyInit == Init /\ [][NextLazyInit]_vars

\* The Window Locator called on every short window list.
NextLocate == OpenWindow \/ CallLocate

SpecLocate == Init /\ [][NextLocate]_vars

\* ------------------------------------------------------------------ claims

\* The session has lost its window: a capture through its handle failed and
\* no lookup has returned a handle since.
Lost(s) == window_id[s] = None /\ stale[s] # {}

\* C1: whatever locate and captureWindow return, the frame acquisition of a
\* tick ends with a frame in hand (the encoder is never handed None), and a
\* session only ever raises because its fallback region grab raised.
C1_AcquisitionYieldsFrame ==
  \A s \in Sessions :
    /\ pc[s] \in {"encode", "yield"} => frame[s] # "none"
    /\ pc[s] = "raised" => grabFailed[s]

\* C1 witness: an acquisition in which the window capture failed has ended
\* with the fallback frame in hand.
C1_Witness ==
  \E s \in Sessions : pc[s] = "encode" /\ frame[s] = "region" /\ stale[s] # {}

\* C2: a handle whose capture failed is dropped by that attempt (the session
\* is left with no handle), the cached handle is never one that failed and
\* was not returned by a later lookup, and the cache is one handle or None.
C2_FailedHandleDiscarded ==
  \A s \in Sessions :
    /\ window_id[s] \in Handles \cup {None}
    /\ window_id[s] \notin stale[s]
    /\ (pc[s] = "grab" /\ frame[s] = "none") => window_id[s] = None

\* C2 witness: the capture through the cached handle has just failed while the
\* window still exists, and the handle is gone.
C2_Witness ==
  \E s \in Sessions :
    /\ pc[s] = "grab"
    /\ stale[s] # {}
    /\ window_id[s] = None
    /\ winId[source[s]] # None

\* C3: whenever a session is about to call the Window Locator, its clock
\* reading is at least the lookup interval after the reading of its previous
\* locate call (if there was one).
C3_LookupsRateLimited ==
  \A s \in Sessions :
    pc[s] = "locate" =>
      (lookupAt[s] = 0 \/ tnow[s] - lookupAt[s] >= LookupInterval)

\* C3 witness: a second lookup of a session is about to happen, after a
\* cached handle was invalidated.
C3_Witness ==
  \E s \in Sessions : pc[s] = "locate" /\ lookupAt[s] # 0 /\ stale[s] # {}

\* C4: the encode step never ends the session: a failed encode leads straight
\* back to the loop top without a yield (no chunk), a good one to the yield,
\* also after earlier failures.
C4_EncodeFailureSkipsTick ==
  [][\A s \in Sessions :
       pc[s] = "encode" =>
         \/ pc'[s] = "encode"
         \/ pc'[s] = "killed"
         \/ pc'[s] = "yield" /\ encFailed'[s] = encFailed[s]
         \/ pc'[s] = "top" /\ encFailed'[s]]_vars

\* C4 witness: a chunk is being emitted by a session one of whose earlier
\* encodes failed.
C4_Witness ==
  \E s \in Sessions : pc[s] = "yield" /\ encFailed[s]

\* C5: once a source is positioned it stays positioned and the reconciler
\* never again enters set_window_bounds for it.
C5_PositionedIsFinal ==
  [][\A src \in Sources :
       positioned[src] => (positioned'[src] /\ rpc' # CallPc(src))]_vars

\* C5 witness: the iPhone is positioned and the reconciler is in the move call
\* for the iPad, which is not.
C5_Witness ==
  positioned["iphone"] /\ ~positioned["ipad"] /\ rpc = "call_ipad"

\* C6: from the tick in which the capture through the cached handle fails,
\* and as long as no lookup finds a window, every frame that reaches the
\* encoder and every chunk emitted is the fallback region's; the session
\* raises only if the fallback grab raises and closes only at a yield (client
\* disconnect).
C6_WindowLossFallsBack ==
  /\ [](\A s \in Sessions :
          Lost(s) =>
            /\ pc[s] \in {"encode", "yield"} => frame[s] = "region"
            /\ pc[s] = "raised" => grabFailed[s])
  /\ [][\A s \in Sessions :
          (Lost(s) /\ pc'[s] = "closed") => pc[s] \in {"yield", "closed"}]_vars

\* C6 witness: a session that emitted window-captured chunks has lost the
\* window, which is closed, and is emitting a fallback chunk.
C6_Witness ==
  \E s \in Sessions :
    /\ Lost(s)
    /\ sentWindow[s]
    /\ winId[source[s]] = None
    /\ pc[s] = "yield"
    /\ frame[s] = "region"

\* C7: a step of one session (closing included) leaves the cached handle, the
\* last-lookup time and the position of every other session as they were.
C7_SessionsIndependent ==
  [][\A s, t \in Sessions :
       (s # t /\ pc'[s] # pc[s]) =>
         /\ window_id'[t] = window_id[t]
         /\ last_window_lookup'[t] = last_window_lookup[t]
         /\ pc'[t] = pc[t]]_vars

\* C7 witness: one viewer has closed while the other, on the same source,
\* holds its own handle and is emitting a window-captured chunk.
C7_Witness ==
  /\ pc["c1"] = "closed"
  /\ source["c1"] = source["c2"]
  /\ pc["c2"] = "yield"
  /\ window_id["c2"] # None
  /\ frame["c2"] = "window"

\* C8: once the stop event is set, a streaming session closes within one
\* tick: it begins at most one more loop iteration after the event.
C8_ShutdownClosesSessions ==
  \A s \in Sessions : lateTicks[s] <= 1

\* C9: the reconciler loop returns only when both sources are positioned or
\* the stop event is set; it returns at the test after the moves once both
\* are positioned, and at the loop test once the stop event is set, so that
\* at most one move per source begins after the stop event; after its sleep
\* it is back at the loop test.
C9_ReconcilerTermination ==
  /\ [](/\ rpc = "done" =>
             \/ stop_event
             \/ \A src \in Sources : positioned[src]
             \/ platform # "darwin"
             \/ ~auto_position
        /\ \A src \in Sources : lateMoves[src] <= 1)
  /\ [][/\ (rpc = "both" /\ (\A src \in Sources : positioned[src]))
             => rpc' \in {"both", "done", "killed"}
        /\ (rpc = "while" /\ stop_event) => rpc' \in {"while", "done", "killed"}
        /\ rpc = "sleep" => rpc' \in {"sleep", "while", "killed"}]_vars

\* C9 witness: the loop has returned on the stop event with the iPhone still
\* unpositioned, after one move attempt begun after the stop event.
C9_Witness ==
  /\ rpc = "done"
  /\ stop_event
  /\ ~positioned["iphone"]
  /\ lateMoves["iphone"] = 1

\* C10 as stated: with the reconciler running, every chunk a session emits
\* while its source is not yet positioned is built from the fallback region.
C10_FallbackUntilPositioned ==
  \A s \in Sessions :
    (/\ platform = "darwin"
     /\ auto_position
     /\ pc[s] = "yield"
     /\ ~positioned[source[s]]) => frame[s] = "region"

\* C10 amended: every chunk a session emits before its source's window has
\* first appeared is built from the fallback region.
C10_FallbackUntilWindowAppears ==
  \A s \in Sessions :
    (pc[s] = "yield" /\ winGen[source[s]] = 0) => frame[s] = "region"

\* C10 witness: the window has not appeared, the reconciler has polled in
\* vain and sleeps, and the session emits a fallback chunk.
C10_Witness ==
  \E s \in Sessions :
    /\ pc[s] = "yield"
    /\ winGen[source[s]] = 0
    /\ rpc = "sleep"
    /\ frame[s] = "region"

\* C11: while a source's window does not exist, a poll enters the move call
\* for it, the call returns without ending the loop and without touching the
\* other source, and the source stays unpositioned; a source becomes positioned
\* only in its own move call with its window present, and a move that
\* succeeded has set its flag.
C11_AbsentWindowIsRetried ==
  /\ [](\A src \in Sources :
          /\ positioned[src] => winGen[src] > 0
          /\ moved[src] => positioned[src])
  /\ [][\A src \in Sources :
          /\ (rpc = TestPc(src) /\ ~positioned[src])
               => rpc' \in {TestPc(src), CallPc(src), "killed"}
          /\ rpc = CallPc(src) =>
               /\ rpc' \in {CallPc(src), AfterPc(src), "killed"}
               /\ \A o \in Sources \ {src} : positioned'[o] = positioned[o]
               /\ winId[src] = None => ~positioned'[src]
          /\ (positioned'[src] /\ ~positioned[src])
               => (rpc = CallPc(src) /\ winId[src] # None)]_vars

\* C11 witness: the iPad, absent during an earlier poll, has appeared and the
\* poll under way has just positioned it, the iPhone still being absent.
C11_Witness ==
  /\ positioned["ipad"]
  /\ moved["ipad"]
  /\ rpc = "both"
  /\ winGen["iphone"] = 0
  /\ ~positioned["iphone"]

\* C14: with auto-positioning disabled the reconciler never enters a
\* set_window_bounds call and no source is ever positioned.
C14_DisabledNeverMoves ==
  ~auto_position =>
    /\ rpc \notin {"call_iphone", "call_ipad", "while", "sleep"}
    /\ \A src \in Sources : ~positioned[src] /\ ~moved[src]

\* C14 witness: auto-positioning is off on macOS, both windows exist, and the
\* reconciler has returned.
C14_Witness ==
  /\ ~auto_position
  /\ platform = "darwin"
  /\ rpc = "done"
  /\ \A src \in Sources : winId[src] # None

\* The locals of one session.
LocalsOf(s) ==
  <<pc[s], source[s], tnow[s], window_id[s], last_window_lookup[s], frame[s],
    sct[s]>>

\* C12: the step in which a session's region grab fails ends that session
\* only: every other session's locals, the reconciler and main are as before,
\* the failed session never moves again, and the sessions and the reconciler
\* still running can take their next step.
C12_GrabFailureIsLocal ==
  /\ [][\A s \in Sessions :
          /\ (pc[s] = "grab" /\ pc'[s] = "raised") =>
               /\ \A o \in Sessions \ {s} : LocalsOf(o)' = LocalsOf(o)
               /\ recVars' = recVars
               /\ mainVars' = mainVars
          /\ (pc[s] = "raised" /\ grabFailed[s]) => LocalsOf(s)' = LocalsOf(s)]_vars
  /\ [](\A s \in Sessions : grabFailed[s] =>
          /\ \A o \in Sessions \ {s} :
               pc[o] \notin {"closed", "raised", "killed"} => ENABLED PairStep(o)
          /\ rpc \notin {"done", "killed"} => ENABLED ReconcilerStep)

\* C12 witness: one session has failed in its region grab while the other is
\* about to emit a chunk and the reconciler is inside its loop.
C12_Witness ==
  /\ grabFailed["c1"]
  /\ pc["c1"] = "raised"
  /\ pc["c2"] = "yield"
  /\ rpc = "sleep"

\* C13: a chunk is only ever encoded and emitted from a frame acquired in the
\* same tick; the slot holds at most one frame, it is empty when a tick starts
\* acquiring, and a frame is acquired only into an empty slot, so frames leave
\* in the order they were acquired and none waits behind another.
C13_NoFrameQueue ==
  /\ [](\A s \in Sessions :
          /\ pc[s] = "yield" => (fresh[s] /\ frame[s] # "none")
          /\ (pc[s] = "encode" /\ frame[s] # "none") => fresh[s]
          /\ pc[s] \in {"locate", "capture"} => frame[s] = "none")
  /\ [][\A s \in Sessions :
          (fresh'[s] /\ ~fresh[s]) =>
             /\ frame[s] = "none"
             /\ frame'[s] # "none"
             /\ pc[s] \in {"capture", "grab"}]_vars

\* C13 witness: a second tick has acquired a region frame, after a window
\* frame was already emitted, and its chunk is at the emit point.
C13_Witness ==
  /\ sentWindow["c1"]
  /\ pc["c1"] = "yield"
  /\ frame["c1"] = "region"
  /\ fresh["c1"]

\* C15: when the capture through the cached handle fails and the lookup
\* interval has elapsed since the last lookup, the session goes on to call the
\* Window Locator in that same acquisition.
C15_LookupInFailingAcquisition ==
  [][\A s \in Sessions :
       (/\ pc[s] = "capture"
        /\ window_id[s] # None
        /\ window_id'[s] = None
        /\ tnow[s] - last_window_lookup[s] >= LookupInterval)
         => pc'[s] = "locate"]_vars

\* The larger of a number and zero.
AtLeastZero(n) == IF n > 0 THEN n ELSE 0

\* C16: the pacing sleep asked for after a tick lasts the frame interval less
\* the time the tick has already taken, and never less than zero.
C16_SleepIsRemainderOfInterval ==
  [][\A s \in Sessions :
       (pc[s] = "yield" /\ pc'[s] = "sleep")
         => asleep'[s] = AtLeastZero(FrameDelay - (now - tickStart[s]))]_vars

\* C17: a session begins a new acquisition only from its pacing sleep (or, the
\* first time, from the start of the session), also after a failed encode.
C17_SleepBetweenAcquisitions ==
  [][\A s \in Sessions :
       (pc'[s] = "top" /\ pc[s] # "top") => pc[s] \in {"idle", "sleep"}]_vars

\* What a session has called and emitted so far.
CallsOf(s) ==
  <<lookupAt[s], stale[s], sentWindow[s], encFailed[s], grabFailed[s],
    fresh[s], tickStart[s], asleep[s]>>

\* C19: the step that closes a session at its emit point releases the
\* session's mss handle; a closed session holds no handle, and from then on
\* its position, its locals and the record of its calls never change again.
C19_DisconnectReleasesAndStops ==
  /\ [](\A s \in Sessions : pc[s] = "closed" => ~sct[s])
  /\ [][\A s \in Sessions :
          /\ (pc[s] = "yield" /\ pc'[s] = "closed") => (sct[s] /\ ~sct'[s])
          /\ pc'[s] = "closed" => pc[s] \in {"yield", "closed"}
          /\ pc[s] = "closed" =>
               /\ LocalsOf(s)' = LocalsOf(s)
               /\ CallsOf(s)' = CallsOf(s)]_vars

\* C19 witness: a session that emitted a window-captured chunk was closed at
\* its emit point and the clock has moved on since its last tick began.
C19_Witness ==
  /\ pc["c1"] = "closed"
  /\ ~sct["c1"]
  /\ sentWindow["c1"]
  /\ now > tickStart["c1"]

\* C18: whenever a caller has been told True and is using the libraries, the
\* objects the globals name at that moment are configured and the key table
\* is set.
C18_UsedLibrariesAreConfigured ==
  \A t \in Sessions :
    ipc[t] = "use" =>
      /\ MACOS_CG \in cgConfigured
      /\ MACOS_CF \in cfConfigured
      /\ MACOS_CF_KEYS

\* The positions of the windows of a list (entries that carry a window
\* number) whose title contains the substring, letter case apart.
MatchingWindows(title, wins) ==
  {i \in 1..Len(wins) :
     /\ wins[i].state = "ok"
     /\ Contains(LowerStr(title), LowerStr(wins[i].name))}

\* C20: for every window list and title substring, the locator returns the
\* handle of the first window in enumeration order whose title contains the
\* substring case-insensitively, and None when no window matches or the
\* registry query fails; a failed query gives None, never an error.
C20_LocateReturnsFirstMatch ==
  lastCall.called =>
    LET M == MatchingWindows(lastCall.title, lastCall.wins) IN
      lastCall.result =
        IF lastCall.qok /\ M # {}
        THEN NumberOf(CHOOSE i \in M : \A j \in M : i <= j)
        ELSE None

\* C20 witness: of two windows the first does not match and the second
\* matches only when letter case is ignored; the call returned the second.
C20_Witness ==
  /\ lastCall.called
  /\ lastCall.qok
  /\ Len(lastCall.wins) = MaxWindows
  /\ lastCall.title = <<"P", "d">>
  /\ lastCall.wins[1] = [name |-> <<"d", "p">>, state |-> "ok"]
  /\ lastCall.wins[Len(lastCall.wins)].name = <<"P", "D">>
  /\ lastCall.result = NumberOf(Len(lastCall.wins))

====
